---- MODULE Spec2Model ----
(***************************************************************************)
(* Model of Watering_System_V_5.1.ino: the control loop of a plant         *)
(* watering controller (Arduino sketch).  The sketch is one sequential     *)
(* loop() with three blocking waits; the model follows the controller's    *)
(* position in that loop (pc) and lets the environment (the RTC and the    *)
(* push buttons) change between the controller's reads.                    *)
(*                                                                         *)
(* Time is the RTC reading as getUnixTime() gives it: whole seconds.  The  *)
(* four readings setup() takes are steps of their own, so the clock may    *)
(* advance between any two of them.                                        *)
(* Output pins are recorded per pin number as digitalWrite() sets them;    *)
(* the succulent's pumpPin is -1 and is recorded like any other pin.       *)
(***************************************************************************)
EXTENDS Integers, FiniteSets, Sequences

(* ------------------------------ bounds -------------------------------- *)

\* number of times the RTC reading may advance in one behaviour
MaxTicks == 2

\* largest value of lcdCounter followed: the code counts on without limit, the
\* model takes no display advance that would pass this value
MaxLcdCounter == 5

\* the amounts (seconds) by which the RTC reading advances between two reads
ClockSteps == {1, 89999, 300000, 4320000}

\* the same between two of the readings setup() takes, which follow each other
\* within milliseconds
SetupClockSteps == {1}

(* ------------------------- program constants -------------------------- *)

ERR_WATER_TIME == 300
LCD_CHANGE_TIME == 4000
numPlants == 3
errorLED == 8
errorResetButton == 10

PlantIdx == 0 .. (numPlants - 1)

\* Time nullTime / a default-constructed Time, as seconds
nullTime == 0

gBonsai ==
  [name |-> "LEFT BONSAI", pumpPin |-> 6, lightPin |-> 4, maxDryTime |-> 7200,
   waterTime |-> 180, buttonPin |-> 12, lastWatered |-> nullTime,
   lastWateredFor |-> 0, needsWater |-> FALSE]

bBonsai ==
  [name |-> "RIGHT BONSAI", pumpPin |-> 7, lightPin |-> 3, maxDryTime |-> 4320,
   waterTime |-> 180, buttonPin |-> 11, lastWatered |-> nullTime,
   lastWateredFor |-> 0, needsWater |-> FALSE]

succulent ==
  [name |-> "SUCCULENT", pumpPin |-> -1, lightPin |-> 2, maxDryTime |-> 10080,
   waterTime |-> 90, buttonPin |-> 10, lastWatered |-> nullTime,
   lastWateredFor |-> 0, needsWater |-> FALSE]

\* Plant plants[numPlants] {gBonsai, bBonsai, succulent}: copies of the three
InitialPlants == [i \in PlantIdx |->
                    IF i = 0 THEN gBonsai ELSE IF i = 1 THEN bBonsai ELSE succulent]

\* Plant currentPlant: a zero-initialised global
DefaultPlant ==
  [name |-> "", pumpPin |-> 0, lightPin |-> 0, maxDryTime |-> 0,
   waterTime |-> 0, buttonPin |-> 0, lastWatered |-> nullTime,
   lastWateredFor |-> 0, needsWater |-> FALSE]

ButtonPins == {InitialPlants[i].buttonPin : i \in PlantIdx} \cup {errorResetButton}
PumpPins == {InitialPlants[i].pumpPin : i \in PlantIdx}
LightPins == {InitialPlants[i].lightPin : i \in PlantIdx}
OutputPins == PumpPins \cup LightPins \cup {errorLED}

(* ------------------------------ helpers ------------------------------- *)

\* C++ integer division: the quotient is truncated toward zero
TruncDiv(a, b) == IF a >= 0 THEN a \div b ELSE -((-a) \div b)

\* long elapsedTime(Time endTime, Time startTime)
elapsedTime(endTime, startTime) == TruncDiv(endTime - startTime, 1000)

\* a long stored into an int field (16 bits on the AVR)
ToInt(x) == ((x + 32768) % 65536) - 32768

\* (mutant) the level written does not follow the boolean
Level_AlwaysHigh(b) == "HIGH"

\* digitalWrite(pin, boolean)
Level(b) == IF b THEN "HIGH" ELSE "LOW"

VARIABLES
  now,            \* the RTC's reading (rtc.getTime()), in seconds
  ticks,          \* how many times the RTC reading has advanced
  buttons,        \* level of each input pin (LOW = pressed)
  pins,           \* level last written to each output pin
  plants,         \* Plant plants[numPlants]
  currentPlant,   \* Plant currentPlant (a copy of plants[plantCounter])
  plantCounter,
  lcdCounter,
  lcdLastChange,
  waterStartTime,
  currentTime,
  wateringTime,   \* local of loop(): long wateringTime
  watering,
  error,
  pc,             \* where the controller is in setup()/loop()
  setupIndex,     \* local of setup(): the loop variable i of line 112
  stopPress       \* history: the button press that stopped the last session
                  \* early, and whether that press is still held

vars == <<now, ticks, buttons, pins, plants, currentPlant, plantCounter,
          lcdCounter, lcdLastChange, waterStartTime, currentTime, wateringTime,
          watering, error, pc, setupIndex, stopPress>>

envVars == <<now, ticks, buttons>>
progVars == <<pins, plants, currentPlant, plantCounter, lcdCounter,
              lcdLastChange, waterStartTime, currentTime, wateringTime,
              watering, error, pc, setupIndex>>

\* no press has stopped a session
NoStopPress == [pin |-> 0, phase |-> "none"]

(* the state after the globals are constructed, before setup() runs *)
Init ==
  /\ now = 0
  /\ ticks = 0
  /\ buttons = [p \in ButtonPins |-> "HIGH"]
  /\ pins = [p \in OutputPins |-> "LOW"]
  /\ plants = InitialPlants
  /\ currentPlant = DefaultPlant
  /\ plantCounter = 0
  /\ lcdCounter = numPlants
  /\ lcdLastChange = nullTime
  /\ waterStartTime = nullTime
  /\ currentTime = nullTime
  /\ wateringTime = 0
  /\ watering = FALSE
  /\ error = FALSE
  /\ pc = "setup"
  /\ setupIndex = 0
  /\ stopPress = NoStopPress

(* ---------------------------- environment ----------------------------- *)

\* the RTC advances
Tick ==
  /\ ticks < MaxTicks
  /\ \E d \in (IF pc = "setupPlants" THEN SetupClockSteps ELSE ClockSteps) :
       now' = now + d
  /\ ticks' = ticks + 1
  /\ UNCHANGED <<buttons, progVars, stopPress>>

\* somebody presses a button (the input reads LOW)
Press ==
  /\ \E b \in ButtonPins :
       /\ buttons[b] = "HIGH"
       /\ buttons' = [buttons EXCEPT ![b] = "LOW"]
       /\ stopPress' = IF stopPress.pin = b /\ stopPress.phase = "released"
                          THEN NoStopPress  \* pressed anew
                          ELSE stopPress
  /\ UNCHANGED <<now, ticks, progVars>>

\* somebody releases a button
Release ==
  /\ \E b \in ButtonPins :
       /\ buttons[b] = "LOW"
       /\ buttons' = [buttons EXCEPT ![b] = "HIGH"]
       /\ stopPress' = IF stopPress.pin = b /\ stopPress.phase = "held"
                          THEN [stopPress EXCEPT !.phase = "released"]
                          ELSE stopPress
  /\ UNCHANGED <<now, ticks, progVars>>

(* ------------------------------ setup() ------------------------------- *)

\* setup() up to its first reading of the RTC: errorLED off,
\* lcdLastChange = rtc.getTime(); the loop over the plants starts at i = 0
Setup ==
  /\ pc = "setup"
  /\ pins' = [pins EXCEPT ![errorLED] = "LOW"]
  /\ lcdLastChange' = now
  /\ setupIndex' = 0
  /\ pc' = "setupPlants"
  /\ UNCHANGED <<envVars, plants, currentPlant, plantCounter, lcdCounter,
                 waterStartTime, currentTime, wateringTime, watering, error,
                 stopPress>>

\* one pass of for (i...) plants[i].lastWatered = rtc.getTime(): each pass
\* reads the RTC anew; after the last pass setup() returns and loop() runs
SetupPlant ==
  /\ pc = "setupPlants"
  /\ setupIndex < numPlants
  /\ plants' = [plants EXCEPT ![setupIndex].lastWatered = now]
  /\ setupIndex' = setupIndex + 1
  /\ pc' = IF setupIndex + 1 < numPlants THEN "setupPlants" ELSE "loop"
  /\ UNCHANGED <<envVars, pins, currentPlant, plantCounter, lcdCounter,
                 lcdLastChange, waterStartTime, currentTime, wateringTime,
                 watering, error, stopPress>>

(* ------------------------------- loop() ------------------------------- *)

\* currentPlant.needsWater = (elapsedTime(currentTime, lastWatered) >= maxDryTime)
Evaluate(p, t) ==
  [p EXCEPT !.needsWater = (elapsedTime(t, p.lastWatered) >= p.maxDryTime)]

\* digitalRead(currentPlant.buttonPin) == LOW
ButtonLow(cp) == buttons[cp.buttonPin] = "LOW"

\* (mutant) a due plant starts a session by itself
StartRequested_OrDue(cp) == ButtonLow(cp) \/ cp.needsWater

\* if (digitalRead(currentPlant.buttonPin) == LOW): the test that sends the
\* scan into the "release button" wait
StartRequested(cp) == ButtonLow(cp)

\* (mutant) the pump switched on is always the first plant's
PumpOn_FirstPlant(ps, cp) == [ps EXCEPT ![gBonsai.pumpPin] = "HIGH"]

\* digitalWrite(currentPlant.pumpPin, HIGH)
PumpOn(ps, cp) == [ps EXCEPT ![cp.pumpPin] = "HIGH"]

\* (mutant) the pump is left running when the session ends
PumpOff_Skipped(ps, cp) == ps

\* digitalWrite(currentPlant.pumpPin, LOW)
PumpOff(ps, cp) == [ps EXCEPT ![cp.pumpPin] = "LOW"]

\* for (i...) digitalWrite(plants[i].pumpPin, LOW)
AllPumpsOff(ps) ==
  [p \in DOMAIN ps |->
     IF \E i \in PlantIdx : plants[i].pumpPin = p THEN "LOW" ELSE ps[p]]

\* wateringTime >= currentPlant.waterTime || digitalRead(buttonPin) == LOW
StopRequested(wt, cp) == wt >= cp.waterTime \/ ButtonLow(cp)

\* wateringTime >= ERR_WATER_TIME
CeilingReached(wt) == wt >= ERR_WATER_TIME

\* (mutant) the cursor moves on by two plants
NextPlant_SkipsOne(c) == IF c + 2 >= numPlants THEN 0 ELSE c + 2

\* plantCounter++; if (plantCounter >= numPlants) plantCounter = 0
NextPlant(c) == IF c + 1 >= numPlants THEN 0 ELSE c + 1

\* lcdCounter++; if (lcdCounter == numPlants) lcdCounter = 0
NextLcd(c) == IF c + 1 = numPlants THEN 0 ELSE c + 1

\* what the call lcdPrint(plants[c]) can do.  With c outside 0 .. numPlants-1
\* the argument is read past the end of plants[] (undefined behaviour): the
\* sketch may stop while the argument is copied, stop inside lcdPrint, or come
\* back.  With c the index of a plant that has a pump, lcdPrint calls
\* timeOutput(), which ends without a return statement (undefined behaviour):
\* the sketch may stop inside lcdPrint or come back.  A plant without a pump
\* (pumpPin < 0) is printed and lcdPrint comes back.
LcdPrintOutcomes(c) ==
  IF c \notin PlantIdx THEN {"returns", "stopsInCopy", "stopsInPrint"}
  ELSE IF plants[c].pumpPin >= 0 THEN {"returns", "stopsInPrint"}
  ELSE {"returns"}

\* currentPlant.lastWatered = waterStartTime; lastWateredFor = wateringTime
RecordSession(cp, start, wt) ==
  [cp EXCEPT !.lastWatered = start, !.lastWateredFor = ToInt(wt)]

\* top of loop(): copy the plant at the cursor, read the clock, evaluate its
\* dryness, set its light, read its button; with the button up and no session
\* to run, move the cursor on
LoopScan ==
  /\ pc = "loop"
  /\ LET cp == Evaluate(plants[plantCounter], now)
         lit == [pins EXCEPT ![cp.lightPin] = Level(cp.needsWater)]
     IN /\ currentPlant' = cp
        /\ currentTime' = now
        /\ IF StartRequested(cp)
             THEN \* "RELEASE BUTTON TO WATER PLANT": wait for the release
                  /\ pins' = lit
                  /\ pc' = "confirming"
                  /\ UNCHANGED <<plantCounter, waterStartTime, wateringTime>>
             ELSE IF watering
               THEN /\ pins' = PumpOn(lit, cp)
                    /\ wateringTime' = 0
                    /\ waterStartTime' = now
                    /\ pc' = "watering"
                    /\ UNCHANGED plantCounter
               ELSE /\ pins' = lit
                    /\ plantCounter' = NextPlant(plantCounter)
                    /\ pc' = "interlock"
                    /\ UNCHANGED <<waterStartTime, wateringTime>>
  /\ UNCHANGED <<envVars, plants, lcdCounter, lcdLastChange, watering, error,
                 setupIndex, stopPress>>

\* while (digitalRead(buttonPin) == LOW){} ends: the button is up again;
\* watering = true, the pump goes on, the session's start time is taken
ConfirmRelease ==
  /\ pc = "confirming"
  /\ ~ButtonLow(currentPlant)
  /\ watering' = TRUE
  /\ pins' = PumpOn(pins, currentPlant)
  /\ wateringTime' = 0
  /\ waterStartTime' = now
  /\ pc' = "watering"
  /\ stopPress' = NoStopPress
  /\ UNCHANGED <<envVars, plants, currentPlant, plantCounter, lcdCounter,
                 lcdLastChange, currentTime, error, setupIndex>>

\* one pass of while (watering) { ... }, and what follows the loop when it ends
WaterSample ==
  /\ pc = "watering"
  /\ LET wt == elapsedTime(now, waterStartTime)
     IN /\ currentTime' = now
        /\ wateringTime' = wt
        /\ stopPress' = IF wt < currentPlant.waterTime /\ ButtonLow(currentPlant)
                           THEN [pin |-> currentPlant.buttonPin, phase |-> "held"]
                           ELSE stopPress
        /\ IF StopRequested(wt, currentPlant)
             THEN /\ watering' = FALSE
                  /\ error' = error
                  /\ pins' = PumpOff(pins, currentPlant)
                  /\ currentPlant' = RecordSession(currentPlant, waterStartTime, wt)
                  /\ pc' = "interlock"
             ELSE IF CeilingReached(wt)
               THEN /\ error' = TRUE
                    /\ watering' = FALSE
                    /\ pins' = PumpOff(pins, currentPlant)
                    /\ currentPlant' = RecordSession(currentPlant, waterStartTime, wt)
                    /\ pc' = "interlock"
               ELSE UNCHANGED <<watering, error, pins, currentPlant, pc>>
  /\ UNCHANGED <<envVars, plants, plantCounter, lcdCounter, lcdLastChange,
                 waterStartTime, setupIndex>>

\* if (elapsedTime(currentTime, lcdLastChange) >= LCD_CHANGE_TIME) advance the
\* display cursor; then lcdPrint(plants[lcdCounter]), which reads the clock
\* into currentTime; when it comes back the loop() cycle is over
DisplayStep ==
  LET advance == elapsedTime(currentTime, lcdLastChange) >= LCD_CHANGE_TIME
  IN /\ advance => lcdCounter < MaxLcdCounter
     /\ lcdCounter' = IF advance THEN NextLcd(lcdCounter) ELSE lcdCounter
     /\ \E outcome \in LcdPrintOutcomes(lcdCounter') :
          /\ currentTime' = IF outcome = "stopsInCopy" THEN currentTime ELSE now
          /\ pc' = IF outcome = "returns" THEN "loop" ELSE "stopped"
     /\ UNCHANGED lcdLastChange

\* if (error) { error light on, every pump off, wait for the reset button },
\* then the display part that ends the loop() cycle
ErrorInterlock ==
  /\ pc = "interlock"
  /\ IF error
       THEN /\ pins' = AllPumpsOff([pins EXCEPT ![errorLED] = "HIGH"])
            /\ IF buttons[errorResetButton] = "LOW"
                 THEN /\ error' = FALSE
                      /\ DisplayStep
                 ELSE UNCHANGED <<error, lcdCounter, lcdLastChange, currentTime, pc>>
       ELSE /\ DisplayStep
            /\ UNCHANGED <<pins, error>>
  /\ UNCHANGED <<envVars, plants, currentPlant, plantCounter, waterStartTime,
                 wateringTime, watering, setupIndex, stopPress>>

Next ==
  \/ Tick
  \/ Press
  \/ Release
  \/ Setup
  \/ SetupPlant
  \/ LoopScan
  \/ ConfirmRelease
  \/ WaterSample
  \/ ErrorInterlock

Spec == Init /\ [][Next]_vars

\* the processor keeps executing the sketch; nothing obliges the clock to be
\* read at a later time or anybody to touch a button
LiveSpec ==
  /\ Spec
  /\ WF_vars(Setup)
  /\ WF_vars(SetupPlant)
  /\ WF_vars(LoopScan)
  /\ WF_vars(ConfirmRelease)
  /\ WF_vars(WaterSample)
  /\ WF_vars(ErrorInterlock)


(* ----------------------- elapsedTime() on its own ---------------------- *)

\* readings of the RTC (seconds) given to elapsedTime as end and start
TimeSamples == {0, 1, 999, 1000, 1001, 5000, 300000, 4320000}

\* two arbitrary Time values in currentTime and waterStartTime
ElapsedInit ==
  /\ now = 0
  /\ ticks = 0
  /\ buttons = [p \in ButtonPins |-> "HIGH"]
  /\ pins = [p \in OutputPins |-> "LOW"]
  /\ plants = InitialPlants
  /\ currentPlant = DefaultPlant
  /\ plantCounter = 0
  /\ lcdCounter = numPlants
  /\ lcdLastChange = nullTime
  /\ waterStartTime \in TimeSamples
  /\ currentTime \in TimeSamples
  /\ wateringTime = 0
  /\ watering = FALSE
  /\ error = FALSE
  /\ pc = "elapsedTime"
  /\ setupIndex = numPlants
  /\ stopPress = NoStopPress

\* wateringTime = elapsedTime(currentTime, waterStartTime)
ElapsedApply ==
  /\ pc = "elapsedTime"
  /\ UNCHANGED stopPress
  /\ wateringTime' = elapsedTime(currentTime, waterStartTime)
  /\ pc' = "returned"
  /\ UNCHANGED <<envVars, pins, plants, currentPlant, plantCounter, lcdCounter,
                 lcdLastChange, waterStartTime, currentTime, watering, error,
                 setupIndex>>

ElapsedSpec == ElapsedInit /\ [][ElapsedApply]_vars


(* ------------------------------- claims ------------------------------- *)

\* the plants whose pump output is on
PumpsOn == {i \in PlantIdx : pins[plants[i].pumpPin] = "HIGH"}

\* C1: in every reachable state, whatever the buttons and the clock did, at
\* most one plant's pump output is on.
C1_AtMostOnePumpOn == Cardinality(PumpsOn) <= 1

\* C1 witness: the right bonsai is being watered while the left bonsai's
\* button is held down.
C1_Witness ==
  /\ pc = "watering"
  /\ plantCounter = 1
  /\ PumpsOn = {1}
  /\ buttons[plants[0].buttonPin] = "LOW"

\* C2: whenever a sample elapsedTime(currentTime, waterStartTime) taken in a
\* session is at or above ERR_WATER_TIME, the session ends in ERROR: the error
\* flag is set, the session's pump is off, and the controller goes to the
\* error wait.
C2_CeilingSampleEndsInError ==
  [][(pc = "watering" /\ wateringTime' >= ERR_WATER_TIME)
       => /\ error'
          /\ pc' = "interlock"
          /\ pins'[currentPlant.pumpPin] = "LOW"]_vars

\* C3: a session's pump is off no later than the first sample at which 300
\* seconds have passed since the session started (currentTime is the sample's
\* time, waterStartTime the session's start), whatever the button does.
C3_PumpOffWithin300Seconds ==
  (pc = "watering" /\ currentTime - waterStartTime >= ERR_WATER_TIME)
    => pins[currentPlant.pumpPin] = "LOW"

\* plant i is due: the time since its last watering has reached its
\* max_dry_interval
IsDue(i) ==
  /\ pc \notin {"setup", "setupPlants"}
  /\ elapsedTime(now, plants[i].lastWatered) >= plants[i].maxDryTime

\* no button is down
NoButtonDown == \A b \in ButtonPins : buttons[b] = "HIGH"

\* C7 (as claimed): when nobody ever presses a button, a plant that is due
\* gets its pump actuated eventually, by the controller itself.
C7_DuePlantIsWatered ==
  []NoButtonDown
    => \A i \in PlantIdx : IsDue(i) ~> (pins[plants[i].pumpPin] = "HIGH")

\* C7 (amended): the controller never actuates a pump on its own, due or not.
\* The "release button" wait is entered only with the scanned plant's demand
\* button read pressed, and a pump output goes on only when that wait ends
\* with the button released, and then it is the scanned plant's pump.
C7_PumpOnlyOnDemand ==
  [][/\ (pc # "confirming" /\ pc' = "confirming")
          => buttons[currentPlant'.buttonPin] = "LOW"
     /\ (\E p \in PumpPins : pins[p] = "LOW" /\ pins'[p] = "HIGH")
          => /\ pc = "confirming"
             /\ buttons[currentPlant.buttonPin] = "HIGH"
             /\ \A p \in PumpPins :
                  (pins[p] = "LOW" /\ pins'[p] = "HIGH") => p = currentPlant.pumpPin]_vars

\* C7 witness: a plant found due at its scan is being watered, after its
\* button was pressed and released.
C7_Witness ==
  /\ pc = "watering"
  /\ currentPlant.needsWater
  /\ pins[currentPlant.pumpPin] = "HIGH"

\* C8: immediately after the scan of the plant at the cursor, the needsWater
\* field of its registry record plants[plantCounter] equals
\* (elapsed(now, lastWatered) >= maxDryTime).
C8_RegistryNeedsWaterAfterScan ==
  [][(pc = "loop" /\ pc' # "loop")
       => plants'[plantCounter].needsWater
            = (elapsedTime(now, plants[plantCounter].lastWatered)
                 >= plants[plantCounter].maxDryTime)]_vars

\* |a - b| <= 1
WithinOne(a, b) == a - b <= 1 /\ b - a <= 1

\* C9: when a session ends by reaching waterTime with the button up, the
\* registry record of the plant has lastWatered = waterStartTime and
\* lastWateredFor = waterTime, within one unit.
C9_RegistryRecordsSession ==
  [][(/\ pc = "watering"
      /\ pc' = "interlock"
      /\ ~ButtonLow(currentPlant)
      /\ wateringTime' >= currentPlant.waterTime)
       => /\ plants'[plantCounter].lastWatered = waterStartTime
          /\ WithinOne(plants'[plantCounter].lastWateredFor, currentPlant.waterTime)]_vars

\* C10: in a session in which the button is not pressed, the pump is on at
\* every sample taken less than waterTime seconds after the session's start,
\* and at a sample taken waterTime seconds or more after it the pump is off
\* and the controller is idle again (Scenario B: on at 179 s, off at 180 s).
C10_PumpFollowsTarget ==
  /\ (pc = "watering" /\ currentTime - waterStartTime < currentPlant.waterTime)
       => pins[currentPlant.pumpPin] = "HIGH"
  /\ ~(pc = "watering" /\ currentTime - waterStartTime >= currentPlant.waterTime)

\* C11: a demand-button press read by a session's sample t seconds after its start,
\* t below waterTime, ends the session: the pump is off, the controller is
\* idle (not watering, no error), and the plant's record has
\* lastWateredFor = t (Scenario D: press at 50 s gives 50).
C11_EarlyStopRecordsDuration ==
  [][(/\ pc = "watering"
      /\ ButtonLow(currentPlant)
      /\ now - waterStartTime < currentPlant.waterTime
      /\ UNCHANGED envVars)
       => /\ pc' = "interlock"
          /\ pins'[currentPlant.pumpPin] = "LOW"
          /\ ~watering' /\ ~error'
          /\ plants'[plantCounter].lastWateredFor = now - waterStartTime
          /\ currentPlant'.lastWateredFor = now - waterStartTime]_vars

\* C12: the display cursor advances only when the dwell time has passed since
\* lcdLastChange, and lcdLastChange is reset at each advance, so that right
\* after an advance the dwell time has not passed again.
C12_AdvanceRestartsDwell ==
  [][(lcdCounter' # lcdCounter)
       => /\ elapsedTime(currentTime, lcdLastChange) >= LCD_CHANGE_TIME
          /\ elapsedTime(now, lcdLastChange') < LCD_CHANGE_TIME]_vars

\* C13: the dryness evaluation compares minutes with minutes: the scanned
\* plant is computed as due exactly when the time from its lastWatered to now,
\* in minutes, is at least its maxDryTime (minutes).
C13_DueComparesMinutes ==
  [][(pc = "loop" /\ pc' # "loop")
       => currentPlant'.needsWater
            = (TruncDiv(now - plants[plantCounter].lastWatered, 60)
                 >= plants[plantCounter].maxDryTime)]_vars

\* C14: elapsedTime(end, start) is the number of seconds from start to end,
\* and zero when end is before start: it is never negative.
C14_ElapsedIsClampedSeconds ==
  pc = "returned"
    => wateringTime = (IF currentTime < waterStartTime THEN 0
                       ELSE currentTime - waterStartTime)

\* C15: plantCounter stays within 0 .. numPlants-1; a loop() cycle in which no
\* session runs moves it on by exactly one position, wrapping to 0 after the
\* last index, whichever plants are due; no other step changes it.
C15_CursorRoundRobin ==
  [][/\ plantCounter \in PlantIdx
     /\ plantCounter' \in PlantIdx
     /\ IF pc = "loop" /\ pc' = "interlock"
          THEN plantCounter' = (plantCounter + 1) % numPlants
          ELSE plantCounter' = plantCounter]_vars

\* C15 witness: the scan of the last plant has just wrapped the cursor to 0,
\* while the right bonsai is due.
C15_Witness ==
  /\ pc = "interlock"
  /\ plantCounter = 0
  /\ currentPlant.name = "SUCCULENT"
  /\ IsDue(1)

\* C16: right after the scan of the plant at the cursor, that plant's light is
\* on exactly when the dryness evaluation made by the scan returned due, and
\* the scan leaves the other plants' lights as they were.
C16_LightFollowsEvaluation ==
  [][(pc = "loop" /\ pc' # "loop")
       => /\ currentPlant'.needsWater
               = (elapsedTime(now, plants[plantCounter].lastWatered)
                    >= plants[plantCounter].maxDryTime)
          /\ (pins'[plants[plantCounter].lightPin] = "HIGH")
               <=> currentPlant'.needsWater
          /\ \A i \in PlantIdx \ {plantCounter} :
               pins'[plants[i].lightPin] = pins[plants[i].lightPin]]_vars

\* C16 witness: the right bonsai was scanned when due and its light is on,
\* the left bonsai's light is off.
C16_Witness ==
  /\ pc = "interlock"
  /\ currentPlant.name = "RIGHT BONSAI"
  /\ currentPlant.needsWater
  /\ pins[plants[1].lightPin] = "HIGH"
  /\ pins[plants[0].lightPin] = "LOW"

\* C18: one press that stops a session early does not also start a session:
\* no session begins (no pump goes on) for a plant whose button stopped the
\* last session and has since only been released, not pressed anew.
C18_StopPressDoesNotRestart ==
  [][(pc = "confirming" /\ pc' = "watering")
       => ~(stopPress.pin = currentPlant.buttonPin /\ stopPress.phase = "released")]_vars

\* C19: whenever the display is rendered (lcdPrint(plants[lcdCounter]) at the
\* end of a loop() cycle, the first cycle included), lcdCounter is an index of
\* the registry, and an advance of the cursor past the last index wraps to 0.
C19_DisplayCursorIsValid ==
  [][/\ (pc = "interlock" /\ pc' # "interlock") => lcdCounter' \in PlantIdx
     /\ (lcdCounter' # lcdCounter)
          => lcdCounter' = (IF lcdCounter >= numPlants - 1 THEN 0
                            ELSE lcdCounter + 1)]_vars

\* C20: a pump output is on only in the watering wait and only for the plant
\* at the scanner cursor; at the top of loop(), in the "release button" wait
\* and in the error check and wait every pump output is off.
C20_PumpOnOnlyWhileWatering ==
  \A p \in PumpPins :
    pins[p] = "HIGH"
      => /\ pc = "watering"
         /\ watering
         /\ p = plants[plantCounter].pumpPin
         /\ p = currentPlant.pumpPin

\* C20 witness: the left bonsai's session has been running for a while (a
\* sample above zero was taken) with its pump on.
C20_Witness ==
  /\ pc = "watering"
  /\ plantCounter = 0
  /\ wateringTime > 0
  /\ pins[plants[0].pumpPin] = "HIGH"

====
